---- MODULE Spec2Model ----
(***************************************************************************)
(* pyasn_util_download.py: locate and download the latest RouteViews      *)
(* MRT/RIB archive.                                                        *)
(*                                                                         *)
(* A Python str is modelled as a sequence of one-character strings, so    *)
(* that regular-expression matching, formatting, endswith, substring      *)
(* tests and the lexicographic sort key are computed character by         *)
(* character, as the code computes them.                                   *)
(***************************************************************************)
EXTENDS Integers, Sequences, FiniteSets, TLC

VARIABLES
    jobs,           \* IP versions still to be handled by the module body (lines 163-168)
    ipv,            \* the version of the running download_latest_for_version call
    pc,             \* position of the run
    web,            \* per page of the tree for ipv, what the server last sent: <<>> or <<page>>
    nchanges,       \* times the server sent for a page other content than the time before
    timestamps,     \* BgpSiteHtmlParser.timestamps of the parser in use
    test_date,      \* local test_date of get_latest_year_month
    requested_url,  \* argument of the get_html call in progress
    retries,        \* argument retries of the innermost get_html frame
    attempts,       \* outcomes of the HTTP attempts of the get_html call in progress
    html,           \* value returned by the last get_html call that returned
    probed,         \* existence probes of this run: month tuple and file name found
    trace,          \* calls started in this run: get_html calls and the download
    results,        \* URLs find_latest_in_web has returned for the tree, oldest first
    exc,            \* exception that ended the process, "none" while it runs
    feedIn,         \* page handed to HTMLParser.feed, as the sequence of its start tags
    feedPos,        \* number of start tags already dispatched to handle_starttag
    feedYM,         \* constructor argument year_month of the parser being fed
    latest_year_month_url,  \* argument of a check_files_exists call made on its own
    check_returned  \* what that call returned: "True", "False", "none" before it returns

vars == <<jobs, ipv, pc, web, nchanges, timestamps, test_date, requested_url,
          retries, attempts, html, probed, trace, results, exc,
          feedIn, feedPos, feedYM, latest_year_month_url, check_returned>>

runVars == <<jobs, ipv, pc, web, nchanges, test_date, requested_url,
             retries, attempts, html, probed, trace, results>>

feedVars == <<feedIn, feedPos, feedYM>>

checkVars == <<latest_year_month_url, check_returned>>

-----------------------------------------------------------------------------
(* Bounds *)

\* longest page (number of start tags) fed to a parser on its own
MaxTags == 3
\* longest root listing (number of anchors)
MaxRootAnchors == 2
\* longest month listing (number of anchors)
MaxFileAnchors == 2
\* content changes the server makes while the program runs
MaxChanges == 1

-----------------------------------------------------------------------------
(* Strings *)

\* the characters that occur, in code point order
Chars == <<"-",".","/","0","1","2","3","4","5","6","7","8","9",":",";","=","?",
           "B","C","D","I","N","O","R","S","a","b","c","d","e","g","h","i","l",
           "m","o","p","r","s","t","u","v","w","x","z","U+0664">>

Ord(c) == CHOOSE i \in 1..Len(Chars) : Chars[i] = c

\* ARABIC-INDIC DIGIT FOUR, which a page written in ASCII carries as &#1636;
\* and HTMLParser hands over unescaped
ArabicFour == "U+0664"

\* what \d of a str pattern matches: every Unicode decimal digit, of which
\* one that is not ASCII stands for the rest
Digit == {"0","1","2","3","4","5","6","7","8","9"} \cup {ArabicFour}

\* Python's None as an attribute value; no str equals it
None == <<"None">>

Min(a, b) == IF a <= b THEN a ELSE b

\* a < b for Python str
StrLess(a, b) ==
    \/ \E i \in 1..Min(Len(a), Len(b)) :
          /\ \A j \in 1..(i - 1) : a[j] = b[j]
          /\ Ord(a[i]) < Ord(b[i])
    \/ /\ Len(a) < Len(b)
       /\ \A j \in 1..Len(a) : a[j] = b[j]

\* s.endswith(suffix)
EndsWith(s, suffix) ==
    /\ Len(s) >= Len(suffix)
    /\ SubSeq(s, Len(s) - Len(suffix) + 1, Len(s)) = suffix

\* sub in s
Contains(sub, s) ==
    \E i \in 1..(Len(s) - Len(sub) + 1) : SubSeq(s, i, i + Len(sub) - 1) = sub

\* "{}/{}".format(a, b)
SlashFormat(a, b) == a \o <<"/">> \o b

-----------------------------------------------------------------------------
(* Regular expressions: every element of the two patterns consumes one     *)
(* character, so a pattern is a sequence of one-character matchers and a   *)
(* group is a range of positions.                                          *)

D == [k |-> "digit", c |-> ""]
L(c) == [k |-> "literal", c |-> c]
Dot == [k |-> "any", c |-> ""]

\* re.compile('(\\d{4})\\.(\\d{2})')
MonthRegex ==
    [toks |-> <<D, D, D, D, L("."), D, D>>,
     g1 |-> <<1, 4>>, g2 |-> <<6, 7>>]

\* re.compile('rib\\.(\\d{8})\\.(\\d{4}).bz2'): the last dot is not escaped
FileRegex ==
    [toks |-> <<L("r"), L("i"), L("b"), L("."), D, D, D, D, D, D, D, D, L("."),
                D, D, D, D, Dot, L("b"), L("z"), L("2")>>,
     g1 |-> <<5, 12>>, g2 |-> <<14, 17>>]

\* the pattern chosen by BgpSiteHtmlParser.__init__
RegexOf(year_month) == IF year_month THEN MonthRegex ELSE FileRegex

TokMatches(tok, c) ==
    CASE tok.k = "digit" -> c \in Digit
      [] tok.k = "literal" -> c = tok.c
      [] OTHER -> c # "\n"

\* regex.search(value) is not None, the pattern found anywhere in value
ReSearch(re, value) ==
    \E o \in 0..(Len(value) - Len(re.toks)) :
        \A i \in 1..Len(re.toks) : TokMatches(re.toks[i], value[o + i])

\* regex.match(value) is not None: the pattern matches at the start of value
ReMatch(re, value) ==
    /\ Len(value) >= Len(re.toks)
    /\ \A i \in 1..Len(re.toks) : TokMatches(re.toks[i], value[i])

\* (match.group(1), match.group(2))
Groups(re, value) ==
    <<SubSeq(value, re.g1[1], re.g1[2]), SubSeq(value, re.g2[1], re.g2[2])>>

-----------------------------------------------------------------------------
(* BgpSiteHtmlParser *)

\* a start tag as HTMLParser hands it over: tag name and list of (attr, value)
Tag(name, attrs) == [tag |-> name, attrs |-> attrs]

\* state of a parser while a tag is handled: the list and a raised exception
PState(ts, err) == [ts |-> ts, err |-> err]

\* loop of handle_starttag over attrs, from position i on
RECURSIVE HandleAttrs(_, _, _, _)
HandleAttrs(re, attrs, i, ts) ==
    IF i > Len(attrs) THEN PState(ts, "none")
    ELSE IF attrs[i][1] # "href" THEN HandleAttrs(re, attrs, i + 1, ts)
    ELSE IF attrs[i][2] = None THEN PState(ts, "TypeError")
    ELSE IF ReMatch(re, attrs[i][2])
         THEN HandleAttrs(re, attrs, i + 1, Append(ts, Groups(re, attrs[i][2])))
         ELSE HandleAttrs(re, attrs, i + 1, ts)

handle_starttag(re, ts, t) ==
    IF t.tag = "a" THEN HandleAttrs(re, t.attrs, 1, ts) ELSE PState(ts, "none")

\* HTMLParser.feed: the start tags are handled in page order until one raises
RECURSIVE FeedFrom(_, _, _, _)
FeedFrom(re, page, i, ts) ==
    IF i > Len(page) THEN PState(ts, "none")
    ELSE LET r == handle_starttag(re, ts, page[i])
         IN IF r.err # "none" THEN r ELSE FeedFrom(re, page, i + 1, r.ts)

\* BgpSiteHtmlParser(url, year_month).feed(page) on a new parser
feed(year_month, page) == FeedFrom(RegexOf(year_month), page, 1, <<>>)

\* a sort key that leaves out the second field
tuple_sort_first_field(t) == t[1]

tuple_sort(t) == t[1] \o t[2]

get_url_from_ym_tuple(ym_tuple) ==
    ym_tuple[1] \o <<".">> \o ym_tuple[2] \o <<"/","R","I","B","S">>

\* list.sort(key=tuple_sort): stable, ascending
RECURSIVE Insert(_, _)
Insert(sorted, t) ==
    IF sorted = <<>> THEN <<t>>
    ELSE IF StrLess(tuple_sort(t), tuple_sort(sorted[Len(sorted)]))
         THEN Append(Insert(SubSeq(sorted, 1, Len(sorted) - 1), t), sorted[Len(sorted)])
         ELSE Append(sorted, t)

\* the list left in page order
NoSort(ts) == ts

RECURSIVE SortTimestamps(_)
SortTimestamps(ts) ==
    IF ts = <<>> THEN <<>>
    ELSE Insert(SortTimestamps(SubSeq(ts, 1, Len(ts) - 1)), ts[Len(ts)])

\* the file name returned when the list is empty
NoFile == <<"-","1",".","-","1">>

\* get_latest_file_name with an empty string for the empty list
get_latest_file_name_blank(ts) ==
    LET sorted == SortTimestamps(ts)
    IN IF Len(sorted) > 0
       THEN <<"r","i","b",".">> \o sorted[Len(sorted)][1] \o <<".">>
                \o sorted[Len(sorted)][2] \o <<".","b","z","2">>
       ELSE <<>>

get_latest_file_name(ts) ==
    LET sorted == SortTimestamps(ts)
    IN IF Len(sorted) > 0
       THEN <<"r","i","b",".">> \o sorted[Len(sorted)][1] \o <<".">>
                \o sorted[Len(sorted)][2] \o <<".","b","z","2">>
       ELSE NoFile

-----------------------------------------------------------------------------
(* Pages *)

RECURSIVE SeqsUpTo(_, _)
SeqsUpTo(S, n) ==
    IF n = 0 THEN {<<>>}
    ELSE LET shorter == SeqsUpTo(S, n - 1)
         IN shorter \cup {Append(q, e) : q \in {r \in shorter : Len(r) = n - 1}, e \in S}

Href(value) == Tag("a", << <<"href", value>> >>)

H202401 == <<"2","0","2","4",".","0","1","/">>
H202402 == <<"2","0","2","4",".","0","2","/">>
H202403 == <<"2","0","2","4",".","0","3","/">>
HOther == <<"o","t","h","e","r","/">>
HPrefixed == <<"x","2","0","2","4",".","0","5","/">>
F0310 == <<"r","i","b",".","2","0","2","4","0","3","1","0",".","0","0","0","0",".","b","z","2">>
F0315 == <<"r","i","b",".","2","0","2","4","0","3","1","5",".","1","2","0","0",".","b","z","2">>
F0215 == <<"r","i","b",".","2","0","2","4","0","2","1","5",".","1","2","0","0",".","b","z","2">>
F0201 == <<"r","i","b",".","2","0","2","4","0","2","0","1",".","0","0","0","0",".","b","z","2">>
FNoDot == <<"r","i","b",".","2","0","2","4","0","3","1","5",".","1","8","0","0","x","b","z","2">>
FInDir == <<"o","l","d","/","r","i","b",".","2","0","2","4","0","3","2","5",".","0","0","0","0",".","b","z","2">>

\* start tags of the pages fed to a parser on its own
ParseTags ==
    {Href(H202401), Href(H202403), Href(HOther), Href(HPrefixed),
     Href(F0310), Href(F0315), Href(FNoDot), Href(FInDir),
     Href(<<>>), Href(None),
     Tag("a", <<>>),
     Tag("a", << <<"name", HOther>>, <<"href", H202402>> >>),
     Tag("img", << <<"src", F0310>> >>),
     Tag("link", << <<"href", H202402>> >>)}

ParsePages == SeqsUpTo(ParseTags, MaxTags)

-----------------------------------------------------------------------------
(* Feeding one page to one parser, tag by tag *)

ParseInit ==
    /\ jobs = <<>> /\ ipv = "4" /\ pc = "FEED"
    /\ web = [root |-> <<>>, months |-> <<>>]
    /\ nchanges = 0 /\ test_date = <<>> /\ requested_url = <<>>
    /\ retries = 0 /\ attempts = <<>> /\ html = <<>>
    /\ probed = <<>> /\ trace = <<>> /\ results = <<>>
    /\ timestamps = <<>> /\ exc = "none"
    /\ feedIn \in ParsePages
    /\ feedYM \in BOOLEAN
    /\ feedPos = 0
    /\ latest_year_month_url = <<>> /\ check_returned = "none"

\* the parser dispatches the next start tag of the page to handle_starttag
HandleStarttag ==
    /\ pc = "FEED" /\ exc = "none"
    /\ feedPos < Len(feedIn)
    /\ LET r == handle_starttag(RegexOf(feedYM), timestamps, feedIn[feedPos + 1])
       IN /\ timestamps' = r.ts
          /\ exc' = r.err
          /\ feedPos' = IF r.err = "none" THEN feedPos + 1 ELSE feedPos
    /\ UNCHANGED <<runVars, feedIn, feedYM, checkVars>>

ParseNext == HandleStarttag

ParseSpec == ParseInit /\ [][ParseNext]_vars

-----------------------------------------------------------------------------
(* The archive server *)

\* find_latest_routeviews: server='archive.routeviews.org'
Server == <<"a","r","c","h","i","v","e",".","r","o","u","t","e","v","i","e","w","s",".","o","r","g">>

\* find_latest_routeviews: 'bgpdata' if archive_ipv == '4' else 'route-views6/bgpdata'
ArchiveRoot(v) ==
    IF v = "4" THEN <<"b","g","p","d","a","t","a">>
    ELSE <<"r","o","u","t","e","-","v","i","e","w","s","6","/","b","g","p","d","a","t","a">>

\* find_latest_in_web: base_url = "http://{}/{}".format(server, archive_root)
BaseUrl(v) == <<"h","t","t","p",":","/","/">> \o Server \o <<"/">> \o ArchiveRoot(v)

\* check_url of get_latest_year_month for a month tuple
MonthUrl(v, ym) == SlashFormat(BaseUrl(v), get_url_from_ym_tuple(ym))

Ym02 == << <<"2","0","2","4">>, <<"0","2">> >>
Ym03 == << <<"2","0","2","4">>, <<"0","3">> >>
MonthKeys == {Ym02, Ym03}

\* the anchors a root listing is made of
RootTags == {Href(H202402), Href(H202403), Href(None)}

\* the anchors the listing of a month is made of
FileTags(ym) ==
    IF ym = Ym02 THEN {Href(F0215), Href(F0201)}
    ELSE {Href(F0315), Href(HOther)}

RootPages == SeqsUpTo(RootTags, MaxRootAnchors)
MonthPages(ym) == SeqsUpTo(FileTags(ym), MaxFileAnchors)

\* nothing of the tree was fetched yet
NoSite == [root |-> <<>>, months |-> (Ym02 :> <<>>) @@ (Ym03 :> <<>>)]

\* the listings the server can send for url; none when there is no such page
PagesAt(v, url) ==
    IF url = BaseUrl(v) THEN RootPages
    ELSE UNION {MonthPages(ym) : ym \in {m \in MonthKeys : url = MonthUrl(v, m)}}

\* what the server last sent for url
Shown(w, v, url) ==
    IF url = BaseUrl(v) THEN w.root
    ELSE w.months[CHOOSE ym \in MonthKeys : url = MonthUrl(v, ym)]

\* w after the server sent page for url
Show(w, v, url, page) ==
    IF url = BaseUrl(v) THEN [w EXCEPT !.root = <<page>>]
    ELSE [w EXCEPT !.months[CHOOSE ym \in MonthKeys : url = MonthUrl(v, ym)] = <<page>>]

\* the values of the href attributes of the anchors of a page
AnchorHrefs(page) ==
    UNION {{page[i].attrs[j][2] :
                j \in {m \in 1..Len(page[i].attrs) : page[i].attrs[m][1] = "href"}} :
           i \in {n \in 1..Len(page) : page[n].tag = "a"}}

\* the server has a file at url: a month listing links to it
HasFile(w, v, url) ==
    \E ym \in {m \in MonthKeys : w.months[m] # <<>>} :
        \E h \in AnchorHrefs(w.months[ym][1]) \ {None} :
            url = SlashFormat(MonthUrl(v, ym), h)

\* the tags of a page as a bag
TagCount(page, t) == Cardinality({i \in 1..Len(page) : page[i] = t})
SameTags(p, q) ==
    /\ Len(p) = Len(q)
    /\ \A i \in 1..Len(p) : TagCount(p, p[i]) = TagCount(q, p[i])

-----------------------------------------------------------------------------
(* The program *)

\* get_html(requested_url, retries=2)
DefaultRetries == 2

\* the module body: download_latest_for_version('4'), then ('6'), as requested
ArgJobs == {<<>>, <<"4">>, <<"6">>, <<"4", "6">>}

Fetching == {"FETCH_ROOT", "FETCH_MONTH", "FETCH_FILES", "FETCH_CHECK"}

Got(p) ==
    CASE p = "FETCH_ROOT" -> "GOT_ROOT"
      [] p = "FETCH_MONTH" -> "GOT_MONTH"
      [] p = "FETCH_CHECK" -> "GOT_CHECK"
      [] OTHER -> "GOT_FILES"

Init ==
    /\ jobs \in ArgJobs
    /\ ipv = "" /\ pc = "START"
    /\ web = NoSite
    /\ nchanges = 0 /\ timestamps = <<>> /\ test_date = <<>>
    /\ requested_url = <<>> /\ retries = 0 /\ attempts = <<>>
    /\ html = <<>> /\ probed = <<>> /\ trace = <<>>
    /\ results = <<>> /\ exc = "none"
    /\ feedIn = <<>> /\ feedPos = 0 /\ feedYM = TRUE
    /\ latest_year_month_url = <<>> /\ check_returned = "none"

\* a call get_html(url) begins
StartGetHtml(op, url) ==
    /\ requested_url' = url
    /\ retries' = DefaultRetries
    /\ attempts' = <<>>
    /\ trace' = Append(trace, [op |-> op, url |-> url])

\* an exception that is recorded while the run goes on
RaiseAndGoOn(e) ==
    /\ exc' = e
    /\ pc' = pc

\* an exception leaves the program
Raise(e) ==
    /\ exc' = e
    /\ pc' = IF e = "IndexError" THEN "EXHAUSTED" ELSE "FAILED"

\* download_latest_for_version with one candidate list shared by all parsers
download_latest_for_version_shared_list ==
    /\ pc = "START" /\ jobs # <<>>
    /\ ipv' = Head(jobs)
    /\ jobs' = Tail(jobs)
    /\ web' = IF Head(jobs) = ipv THEN web ELSE NoSite
    /\ nchanges' = IF Head(jobs) = ipv THEN nchanges ELSE 0
    /\ results' = IF Head(jobs) = ipv THEN results ELSE <<>>
    /\ timestamps' = timestamps
    /\ test_date' = <<>>
    /\ html' = <<>>
    /\ probed' = <<>>
    /\ requested_url' = BaseUrl(Head(jobs))
    /\ retries' = DefaultRetries
    /\ attempts' = <<>>
    /\ trace' = <<[op |-> "root", url |-> BaseUrl(Head(jobs))]>>
    /\ pc' = "FETCH_ROOT"
    /\ UNCHANGED <<exc, feedVars, checkVars>>

\* download_latest_for_version(ipv) begins: find_latest_routeviews,
\* find_latest_in_web, get_latest_year_month_url up to its get_html call
download_latest_for_version ==
    /\ pc = "START" /\ jobs # <<>>
    /\ ipv' = Head(jobs)
    /\ jobs' = Tail(jobs)
    /\ web' = IF Head(jobs) = ipv THEN web ELSE NoSite
    /\ nchanges' = IF Head(jobs) = ipv THEN nchanges ELSE 0
    /\ results' = IF Head(jobs) = ipv THEN results ELSE <<>>
    /\ timestamps' = <<>>
    /\ test_date' = <<>>
    /\ html' = <<>>
    /\ probed' = <<>>
    /\ requested_url' = BaseUrl(Head(jobs))
    /\ retries' = DefaultRetries
    /\ attempts' = <<>>
    /\ trace' = <<[op |-> "root", url |-> BaseUrl(Head(jobs))]>>
    /\ pc' = "FETCH_ROOT"
    /\ UNCHANGED <<exc, feedVars, checkVars>>

\* get_html: urlopen(...).read() returns the page the server sends
get_html_return ==
    /\ pc \in Fetching
    /\ \E page \in PagesAt(ipv, requested_url) :
          LET before == Shown(web, ipv, requested_url)
              changed == before # <<>> /\ ~SameTags(page, before[1])
          IN /\ changed => nchanges < MaxChanges
             /\ nchanges' = IF changed THEN nchanges + 1 ELSE nchanges
             /\ web' = Show(web, ipv, requested_url, page)
             /\ html' = page
    /\ attempts' = Append(attempts, "ok")
    /\ pc' = Got(pc)
    /\ UNCHANGED <<jobs, ipv, timestamps, test_date, requested_url,
                   retries, probed, trace, results, exc, feedVars, checkVars>>

\* the retry test with an off-by-one slip
RetryAllowedOffByOne(r) == r >= 0

\* get_html: if retries > 0
RetryAllowed(r) == r > 0

\* get_html returning an empty page instead of raising after the last retry
get_html_except_empty_page(e) ==
    /\ pc \in Fetching
    /\ attempts' = Append(attempts, e)
    /\ IF e = "URLError" /\ RetryAllowed(retries)
       THEN /\ retries' = retries - 1
            /\ UNCHANGED <<pc, exc, html>>
       ELSE /\ pc' = Got(pc)
            /\ html' = <<>>
            /\ UNCHANGED <<retries, exc>>
    /\ UNCHANGED <<jobs, ipv, web, nchanges, timestamps, test_date, requested_url,
                   probed, trace, results, feedVars, checkVars>>

\* get_html: urlopen(...).read() raises e, a URLError (raised while the
\* request is sent, or an HTTP error status) or an exception that is not a
\* URLError (a timeout or reset while the response is read)
get_html_except(e) ==
    /\ pc \in Fetching
    /\ attempts' = Append(attempts, e)
    /\ IF e = "URLError" /\ RetryAllowed(retries)
       THEN /\ retries' = retries - 1
            /\ UNCHANGED <<pc, exc>>
       ELSE /\ Raise(e)
            /\ UNCHANGED retries
    /\ UNCHANGED <<jobs, ipv, web, nchanges, timestamps, test_date, requested_url,
                   html, probed, trace, results, feedVars, checkVars>>

\* get_latest_year_month from a pop on, ts being the sorted list: pop the
\* greatest tuple and start check_files_exists on its page
PopAndProbe(ts) ==
    IF ts = <<>>
    THEN /\ Raise("IndexError")
         /\ timestamps' = ts
         /\ UNCHANGED <<test_date, requested_url, retries, attempts, trace>>
    ELSE LET check_url == MonthUrl(ipv, ts[Len(ts)])
         IN /\ timestamps' = SubSeq(ts, 1, Len(ts) - 1)
            /\ test_date' = ts[Len(ts)]
            /\ UNCHANGED exc
            /\ IF EndsWith(check_url, <<"b","z","2">>)
               THEN /\ pc' = "FETCH_FILES"
                    /\ StartGetHtml("files", check_url)
               ELSE /\ pc' = "FETCH_MONTH"
                    /\ StartGetHtml("probe", check_url)

\* get_latest_year_month_url after get_html returned: feed the root page,
\* then get_latest_year_month up to the first existence probe
get_latest_year_month_url ==
    /\ pc = "GOT_ROOT"
    /\ LET r == FeedFrom(RegexOf(TRUE), html, 1, timestamps)
       IN IF r.err # "none"
          THEN /\ Raise(r.err)
               /\ timestamps' = r.ts
               /\ UNCHANGED <<test_date, requested_url, retries, attempts, trace>>
          ELSE PopAndProbe(SortTimestamps(r.ts))
    /\ UNCHANGED <<jobs, ipv, web, nchanges, html, probed, results, feedVars, checkVars>>

\* the existence test looking for another sentinel
FilesExistOtherSentinel(name) == ~Contains(<<"-","1","-","1">>, name)

\* '-1.-1' not in bgp_data_parser.get_latest_file_name()
FilesExist(name) == ~Contains(NoFile, name)

\* check_files_exists after get_html returned: feed the month page and test
\* the file name; then the loop of get_latest_year_month goes on, or it
\* returns and get_latest_file_url starts its get_html call
check_files_exists ==
    /\ pc = "GOT_MONTH"
    /\ LET r == feed(FALSE, html)
           name == get_latest_file_name(r.ts)
       IN IF r.err # "none"
          THEN /\ Raise(r.err)
               /\ UNCHANGED <<timestamps, test_date, requested_url, retries,
                              attempts, trace, probed>>
          ELSE /\ probed' = Append(probed, [ym |-> test_date, name |-> name])
               /\ IF FilesExist(name)
                  THEN /\ pc' = "FETCH_FILES"
                       /\ StartGetHtml("files", SlashFormat(BaseUrl(ipv),
                                           get_url_from_ym_tuple(test_date)))
                       /\ UNCHANGED <<timestamps, test_date, exc>>
                  ELSE PopAndProbe(timestamps)
    /\ UNCHANGED <<jobs, ipv, web, nchanges, html, results, feedVars, checkVars>>

\* get_latest_file_url after get_html returned: feed the month page and
\* build the URL; find_latest_in_web returns it
get_latest_file_url ==
    /\ pc = "GOT_FILES"
    /\ LET r == feed(FALSE, html)
       IN IF r.err # "none"
          THEN /\ Raise(r.err)
               /\ UNCHANGED results
          ELSE /\ results' = Append(results,
                                SlashFormat(requested_url, get_latest_file_name(r.ts)))
               /\ pc' = "FOUND"
               /\ UNCHANGED exc
    /\ UNCHANGED <<jobs, ipv, web, nchanges, timestamps, test_date, requested_url,
                   retries, attempts, html, probed, trace, feedVars, checkVars>>

\* web_download(url, ipv) begins: urlretrieve is called
web_download ==
    /\ pc = "FOUND"
    /\ pc' = "DOWNLOAD"
    /\ trace' = Append(trace, [op |-> "download", url |-> results[Len(results)]])
    /\ UNCHANGED <<jobs, ipv, web, nchanges, timestamps, test_date, requested_url,
                   retries, attempts, html, probed, results, exc, feedVars, checkVars>>

\* urlretrieve stored the file: web_download and download_latest_for_version return
urlretrieve_return ==
    /\ pc = "DOWNLOAD"
    /\ HasFile(web, ipv, results[Len(results)])
    /\ pc' = "DONE"
    /\ UNCHANGED <<jobs, ipv, web, nchanges, timestamps, test_date, requested_url,
                   retries, attempts, html, probed, trace, results, exc, feedVars, checkVars>>

\* urlretrieve raises; nothing catches it
urlretrieve_except ==
    /\ pc = "DOWNLOAD"
    /\ Raise("DownloadError")
    /\ UNCHANGED <<jobs, ipv, web, nchanges, timestamps, test_date, requested_url,
                   retries, attempts, html, probed, trace, results, feedVars, checkVars>>

\* the module body goes on to its next if statement
NextVersion ==
    /\ pc = "DONE"
    /\ pc' = "START"
    /\ UNCHANGED <<jobs, ipv, web, nchanges, timestamps, test_date, requested_url,
                   retries, attempts, html, probed, trace, results, exc, feedVars, checkVars>>

Next ==
    \/ download_latest_for_version
    \/ get_html_return
    \/ \E e \in {"URLError", "TimeoutError"} : get_html_except(e)
    \/ get_latest_year_month_url
    \/ check_files_exists
    \/ get_latest_file_url
    \/ web_download
    \/ urlretrieve_return
    \/ urlretrieve_except
    \/ NextVersion

Spec == Init /\ [][Next]_vars

\* find_latest_in_web resolved twice for the same server and root
RerunInit ==
    /\ jobs \in {<<"4", "4">>, <<"6", "6">>}
    /\ ipv = "" /\ pc = "START"
    /\ web = NoSite
    /\ nchanges = 0 /\ timestamps = <<>> /\ test_date = <<>>
    /\ requested_url = <<>> /\ retries = 0 /\ attempts = <<>>
    /\ html = <<>> /\ probed = <<>> /\ trace = <<>>
    /\ results = <<>> /\ exc = "none"
    /\ feedIn = <<>> /\ feedPos = 0 /\ feedYM = TRUE
    /\ latest_year_month_url = <<>> /\ check_returned = "none"

RerunSpec == RerunInit /\ [][Next]_vars

\* the module body with both --latestv4 and --latestv6 given
BothInit ==
    /\ jobs = <<"4", "6">>
    /\ ipv = "" /\ pc = "START"
    /\ web = NoSite
    /\ nchanges = 0 /\ timestamps = <<>> /\ test_date = <<>>
    /\ requested_url = <<>> /\ retries = 0 /\ attempts = <<>>
    /\ html = <<>> /\ probed = <<>> /\ trace = <<>>
    /\ results = <<>> /\ exc = "none"
    /\ feedIn = <<>> /\ feedPos = 0 /\ feedYM = TRUE
    /\ latest_year_month_url = <<>> /\ check_returned = "none"

BothSpec == BothInit /\ [][Next]_vars

-----------------------------------------------------------------------------
(* Sorting a candidate list and popping its last element *)

\* number of trailing characters of each field that vary over the candidates
MaxVaried == 1

\* the digits the varied characters are drawn from
SortDigits == {"0", "1", "9", ArabicFour}

\* the strings that differ from base in at most their last k characters
Varied(base, k) ==
    LET n == Min(k, Len(base))
    IN {SubSeq(base, 1, Len(base) - n) \o tail :
            tail \in {q \in SeqsUpTo(SortDigits, n) : Len(q) = n}}

\* hrefs of month directories and of archive files
SortHrefs(year_month) ==
    IF year_month
    THEN {y \o <<".">> \o m \o <<"/">> :
            y \in Varied(<<"2","0","2","4">>, MaxVaried),
            m \in Varied(<<"0","3">>, MaxVaried)}
    ELSE {<<"r","i","b",".">> \o d \o <<".">> \o t \o <<".","b","z","2">> :
            d \in Varied(<<"2","0","2","4","0","3","1","5">>, MaxVaried),
            t \in Varied(<<"1","2","0","0">>, MaxVaried)}

\* a parser that was fed a listing of two anchors
SortInit ==
    /\ jobs = <<>> /\ ipv = "4" /\ pc = "SORT"
    /\ web = [root |-> <<>>, months |-> <<>>]
    /\ nchanges = 0 /\ test_date = <<>> /\ requested_url = <<>>
    /\ retries = 0 /\ attempts = <<>> /\ html = <<>>
    /\ probed = <<>> /\ trace = <<>> /\ results = <<>>
    /\ exc = "none"
    /\ feedYM \in BOOLEAN
    /\ feedIn \in {<<Href(g), Href(h)>> : g, h \in SortHrefs(feedYM)}
    /\ feedPos = Len(feedIn)
    /\ timestamps = feed(feedYM, feedIn).ts
    /\ latest_year_month_url = <<>> /\ check_returned = "none"

\* self.timestamps.sort(key=self.tuple_sort); test_date = self.timestamps.pop()
timestamps_sort_pop ==
    /\ pc = "SORT"
    /\ LET sorted == SortTimestamps(timestamps)
       IN /\ test_date' = sorted[Len(sorted)]
          /\ timestamps' = SubSeq(sorted, 1, Len(sorted) - 1)
    /\ pc' = "POPPED"
    /\ UNCHANGED <<jobs, ipv, web, nchanges, requested_url, retries, attempts, html,
                   probed, trace, results, exc, feedVars, checkVars>>

SortNext == timestamps_sort_pop

SortSpec == SortInit /\ [][SortNext]_vars

-----------------------------------------------------------------------------
(* One call of check_files_exists on its own *)

\* a directory whose name ends in bz2 without a dot before it
HOldBz2 == <<"o","l","d","b","z","2">>

\* the URLs check_files_exists is applied to: the month pages, an archive
\* file, and a directory whose name ends in bz2
CheckUrls(v) ==
    {MonthUrl(v, ym) : ym \in MonthKeys}
        \cup {SlashFormat(MonthUrl(v, Ym02), F0215), SlashFormat(BaseUrl(v), HOldBz2)}

CheckInit ==
    /\ jobs = <<>>
    /\ ipv \in {"4", "6"} /\ pc = "CHECK"
    /\ web = NoSite
    /\ nchanges = 0 /\ timestamps = <<>> /\ test_date = <<>>
    /\ requested_url = <<>> /\ retries = 0 /\ attempts = <<>>
    /\ html = <<>> /\ probed = <<>> /\ trace = <<>>
    /\ results = <<>> /\ exc = "none"
    /\ feedIn = <<>> /\ feedPos = 0 /\ feedYM = TRUE
    /\ latest_year_month_url \in CheckUrls(ipv)
    /\ check_returned = "none"

\* check_files_exists(latest_year_month_url) begins: it returns True at once,
\* or makes a parser and calls get_html
check_files_exists_call ==
    /\ pc = "CHECK"
    /\ IF ~EndsWith(latest_year_month_url, <<"b","z","2">>)
       THEN /\ pc' = "FETCH_CHECK"
            /\ StartGetHtml("probe", latest_year_month_url)
            /\ UNCHANGED check_returned
       ELSE /\ pc' = "CHECKED"
            /\ check_returned' = "True"
            /\ UNCHANGED <<requested_url, retries, attempts, trace>>
    /\ UNCHANGED <<jobs, ipv, web, nchanges, timestamps, test_date, html, probed,
                   results, exc, feedVars, latest_year_month_url>>

\* check_files_exists after get_html returned: feed the page and test the
\* file name
check_files_exists_return ==
    /\ pc = "GOT_CHECK"
    /\ LET r == feed(FALSE, html)
       IN IF r.err # "none"
          THEN /\ Raise(r.err)
               /\ UNCHANGED check_returned
          ELSE /\ pc' = "CHECKED"
               /\ check_returned' = IF FilesExist(get_latest_file_name(r.ts))
                                     THEN "True" ELSE "False"
               /\ UNCHANGED exc
    /\ UNCHANGED <<jobs, ipv, web, nchanges, timestamps, test_date, requested_url,
                   retries, attempts, html, probed, trace, results, feedVars,
                   latest_year_month_url>>

CheckNext ==
    \/ check_files_exists_call
    \/ get_html_return
    \/ \E e \in {"URLError", "TimeoutError"} : get_html_except(e)
    \/ check_files_exists_return

CheckSpec == CheckInit /\ [][CheckNext]_vars

-----------------------------------------------------------------------------
(* Properties *)

Range(q) == {q[i] : i \in 1..Len(q)}

Last(q) == q[Len(q)]

\* the candidates of a listing, whatever the order of its anchors
MonthCandidates(page) == Range(feed(TRUE, page).ts)
FileCandidates(page) == Range(feed(FALSE, page).ts)

\* the greatest tuple of a set by the concatenated-string key
Greatest(S) ==
    CHOOSE t \in S : \A u \in S : ~StrLess(t[1] \o t[2], u[1] \o u[2])

\* the listing the server sent for month ym, <<>> if none was fetched
ListingOf(w, ym) == IF w.months[ym] = <<>> THEN <<>> ELSE w.months[ym][1]

KeyLess(t, u) == StrLess(t[1] \o t[2], u[1] \o u[2])

\* the month candidates of the root listing with a non-empty file listing
\* that have no greater candidate but such with an empty file listing
LatestMonths(w) ==
    {ym \in MonthCandidates(w.root[1]) :
        /\ FileCandidates(ListingOf(w, ym)) # {}
        /\ \A m \in MonthCandidates(w.root[1]) :
              KeyLess(ym, m) => (w.months[m] # <<>> /\ FileCandidates(ListingOf(w, m)) = {})}

\* http://<server>/<root>/<Y>.<M>/RIBS/rib.<D>.<T>.bz2
ArtifactUrl(v, ym, f) ==
    <<"h","t","t","p",":","/","/">> \o Server \o <<"/">> \o ArchiveRoot(v) \o <<"/">>
        \o ym[1] \o <<".">> \o ym[2] \o <<"/","R","I","B","S","/","r","i","b",".">>
        \o f[1] \o <<".">> \o f[2] \o <<".","b","z","2">>

ExpectedUrl(w, v) ==
    LET ym == CHOOSE m \in LatestMonths(w) : TRUE
    IN ArtifactUrl(v, ym, Greatest(FileCandidates(ListingOf(w, ym))))

\* find_latest_in_web has returned in this run
Returned == pc \in {"FOUND", "DOWNLOAD", "DONE"}

\* get_latest_year_month has returned in this run
MonthAccepted == pc \in {"FETCH_FILES", "GOT_FILES", "FOUND", "DOWNLOAD", "DONE"}

\* C1: when every fetch succeeded and no listing changed during the run, the
\* URL find_latest_in_web returns is http://<server>/<root>/<Y>.<M>/RIBS/
\* rib.<D>.<T>.bz2 for the greatest month candidate of the root listing with a
\* non-empty file listing and the greatest file candidate of that month
C1_LatestUrl ==
    (Returned /\ nchanges = 0) =>
        /\ Cardinality(LatestMonths(web)) = 1
        /\ Last(results) = ExpectedUrl(web, ipv)

\* the fallback example: 2024.03 is empty and 2024.02 holds 20240215.1200
C1_Witness ==
    /\ pc = "FOUND" /\ nchanges = 0 /\ ipv = "4"
    /\ MonthCandidates(web.root[1]) = {Ym02, Ym03}
    /\ web.months[Ym03] = << <<>> >>
    /\ web.months[Ym02] = << <<Href(F0215)>> >>
    /\ Len(probed) = 2
    /\ Last(results) = BaseUrl("4") \o <<"/">> \o H202402
                          \o <<"R","I","B","S","/">> \o F0215

\* the month get_latest_year_month returned was probed last, with a file found
C2_AcceptedMonthHasFiles ==
    MonthAccepted =>
        /\ probed # <<>>
        /\ Last(probed).ym = test_date
        /\ Last(probed).name # NoFile
        /\ \A i \in 1..(Len(probed) - 1) : probed[i].name = NoFile
        /\ pc = "FETCH_FILES" => FileCandidates(html) # {}

\* a probe that found nothing is followed by the probe of the greatest tuple left
C2_EmptyMonthDiscarded ==
    (pc = "GOT_MONTH" /\ FileCandidates(html) = {} /\ timestamps # <<>>) =>
        /\ pc' = "FETCH_MONTH"
        /\ test_date' = Last(timestamps)
        /\ timestamps' = SubSeq(timestamps, 1, Len(timestamps) - 1)
        /\ requested_url' = MonthUrl(ipv, Last(timestamps))
        /\ \A i \in 1..Len(timestamps') :
              ~StrLess(tuple_sort(test_date'), tuple_sort(timestamps'[i]))

\* C2: get_latest_year_month returns a month only if the existence probe of
\* that month's page found a file candidate; a probe that finds none discards
\* the month, and the next-highest remaining candidate is probed instead
C2_NeverAcceptsEmptyMonth ==
    [](C2_AcceptedMonthHasFiles) /\ [][C2_EmptyMonthDiscarded]_vars

\* a month is accepted after a higher one was discarded
C2_Witness ==
    /\ pc = "FETCH_FILES" /\ Len(probed) = 2
    /\ probed[1].name = NoFile /\ probed[2].name # NoFile

\* the root listing was fetched and parsed, and every month candidate it
\* yielded has an empty file listing
AllMonthsEmpty ==
    /\ pc \notin {"START", "FETCH_ROOT", "GOT_ROOT"}
    /\ web.root # <<>>
    /\ exc # "TypeError"
    /\ nchanges = 0
    /\ \A ym \in MonthCandidates(web.root[1]) : FileCandidates(ListingOf(web, ym)) = {}

C3_NoUrl ==
    /\ AllMonthsEmpty =>
          /\ ~MonthAccepted
          /\ results = <<>>
          /\ \A i \in 1..Len(trace) : trace[i].op \in {"root", "probe"}
          /\ (exc \notin {"none", "URLError", "TimeoutError"}) =>
                (pc = "EXHAUSTED" /\ exc = "IndexError")
    /\ pc = "EXHAUSTED" =>
          /\ exc = "IndexError" /\ timestamps = <<>> /\ results = <<>>
          /\ \A i \in 1..Len(probed) : probed[i].name = NoFile
          /\ \A i \in 1..Len(trace) : trace[i].op \in {"root", "probe"}

\* the pop from the empty list ends the run
C3_ExhaustedIsFinal ==
    /\ (pc = "GOT_ROOT" /\ feed(TRUE, html).err = "none" /\ MonthCandidates(html) = {}) =>
          (pc' = "EXHAUSTED" /\ exc' = "IndexError" /\ trace' = trace)
    /\ (pc = "GOT_MONTH" /\ FileCandidates(html) = {} /\ timestamps = <<>>) =>
          (pc' = "EXHAUSTED" /\ exc' = "IndexError" /\ trace' = trace)
    /\ (pc = "EXHAUSTED") => UNCHANGED vars

AllBefore(q, n, v) == \A i \in 1..(n - 1) : q[i] = v

C4_AttemptsBounded ==
    /\ Len(attempts) <= DefaultRetries + 1
    /\ pc \in Fetching =>
          /\ AllBefore(attempts, Len(attempts) + 1, "URLError")
          /\ Len(attempts) <= DefaultRetries
    /\ pc \in {"GOT_ROOT", "GOT_MONTH", "GOT_FILES"} =>
          /\ attempts # <<>> /\ Last(attempts) = "ok"
          /\ AllBefore(attempts, Len(attempts), "URLError")
          /\ Shown(web, ipv, requested_url) = <<html>>
    /\ (Len(attempts) = DefaultRetries + 1 /\ Last(attempts) # "ok") =>
          (pc = "FAILED" /\ exc = Last(attempts))

C4_NoAttemptAfterReturn ==
    (attempts # <<>> /\ Last(attempts) # "URLError") =>
        (attempts' = attempts \/ attempts' = <<>>)

\* C4: one get_html call makes at most 3 HTTP attempts; after two failed
\* attempts a successful third one is returned; after three failed attempts
\* the error is raised; after a successful attempt there is no further one
C4_AtMostThreeAttempts ==
    [](C4_AttemptsBounded) /\ [][C4_NoAttemptAfterReturn]_vars

\* the third attempt succeeded after two failures
C4_Witness ==
    /\ pc = "GOT_MONTH"
    /\ attempts = <<"URLError", "URLError", "ok">>
    /\ web.months[test_date] = <<html>> /\ html # <<>>

\* a page is well formed when every attribute of its tags carries a value
WellFormed(page) ==
    \A i \in 1..Len(page) : \A j \in 1..Len(page[i].attrs) :
        page[i].attrs[j][2] # None

AllDigits(h, from, to) == \A i \in from..to : h[i] \in Digit

\* h matches ^\d{4}\.\d{2}
MatchesMonthPattern(h) ==
    /\ Len(h) >= 7
    /\ AllDigits(h, 1, 4) /\ h[5] = "." /\ AllDigits(h, 6, 7)

\* h matches ^rib\.\d{8}\.\d{4}\.bz2
MatchesFilePattern(h) ==
    /\ Len(h) >= 21
    /\ SubSeq(h, 1, 4) = <<"r","i","b",".">>
    /\ AllDigits(h, 5, 12) /\ h[13] = "." /\ AllDigits(h, 14, 17)
    /\ SubSeq(h, 18, 21) = <<".","b","z","2">>

MonthPairsOf(page) ==
    {<<SubSeq(h, 1, 4), SubSeq(h, 6, 7)>> :
        h \in {v \in AnchorHrefs(page) \ {None} : MatchesMonthPattern(v)}}

FilePairsOf(page) ==
    {<<SubSeq(h, 5, 12), SubSeq(h, 14, 17)>> :
        h \in {v \in AnchorHrefs(page) \ {None} : MatchesFilePattern(v)}}

\* the start tags of the page handled so far
Fed == SubSeq(feedIn, 1, feedPos)

\* C5: fed a well-formed page, a parser with the month pattern collects
\* exactly the (YYYY, MM) pairs of the anchors whose href matches
\* ^\d{4}\.\d{2}, and nothing else
C5_MonthCandidates ==
    (pc = "FEED" /\ feedYM /\ WellFormed(feedIn)) =>
        /\ exc = "none"
        /\ Range(timestamps) = MonthPairsOf(Fed)

\* anchors 2024.01/, 2024.03/ and other/ were fed
C5_Witness ==
    /\ pc = "FEED" /\ feedYM /\ feedPos = 3
    /\ feedIn = <<Href(H202401), Href(H202403), Href(HOther)>>
    /\ timestamps = << << <<"2","0","2","4">>, <<"0","1">> >>, Ym03 >>

\* C6: fed a well-formed page, a parser with the file pattern collects
\* exactly the (YYYYMMDD, HHMM) pairs of the anchors whose href matches
\* ^rib\.\d{8}\.\d{4}\.bz2 with a literal dot before bz2; any other href
\* contributes no candidate
C6_FileCandidates ==
    (pc = "FEED" /\ ~feedYM /\ WellFormed(feedIn)) =>
        /\ exc = "none"
        /\ Range(timestamps) = FilePairsOf(Fed)

\* C7: two resolutions for the same server and root against listings whose
\* content did not change return the same URL, whatever the order of the
\* anchors and whatever the first resolution left behind
C7_SameUrlTwice ==
    (Len(results) = 2 /\ nchanges = 0) => results[1] = results[2]

\* the second resolution returned after a fallback, the listings unchanged
C7_Witness ==
    /\ pc = "FOUND" /\ Len(results) = 2 /\ nchanges = 0
    /\ Len(probed) = 2 /\ Len(web.root[1]) = 2

\* START -> FETCH_ROOT -> FETCH_MONTH -> {FOUND | FETCH_MONTH | EXHAUSTED}
\* -> DOWNLOAD -> DONE, with the positions between a fetch and its handling
Edges ==
    {<<"START", "FETCH_ROOT">>, <<"FETCH_ROOT", "GOT_ROOT">>,
     <<"GOT_ROOT", "FETCH_MONTH">>, <<"GOT_ROOT", "EXHAUSTED">>,
     <<"FETCH_MONTH", "GOT_MONTH">>, <<"GOT_MONTH", "FETCH_MONTH">>,
     <<"GOT_MONTH", "EXHAUSTED">>, <<"GOT_MONTH", "FETCH_FILES">>,
     <<"FETCH_FILES", "GOT_FILES">>, <<"GOT_FILES", "FOUND">>,
     <<"FOUND", "DOWNLOAD">>, <<"DOWNLOAD", "DONE">>, <<"DONE", "START">>}
    \cup {<<p, "FAILED">> : p \in {"FETCH_ROOT", "GOT_ROOT", "FETCH_MONTH", "GOT_MONTH",
                                    "FETCH_FILES", "GOT_FILES", "DOWNLOAD"}}

C8_Order ==
    /\ trace # <<>> => trace[1].op = "root"
    /\ \A i \in 2..Len(trace) : trace[i].op # "root"
    /\ \A i \in 1..Len(trace) :
          /\ trace[i].op = "download" =>
                /\ i = Len(trace) /\ i > 1 /\ trace[i - 1].op = "files"
                /\ results # <<>> /\ trace[i].url = Last(results)
          /\ trace[i].op = "files" =>
                \A j \in (i + 1)..Len(trace) : trace[j].op = "download"
    /\ pc \in {"DOWNLOAD", "DONE"} => Last(trace).op = "download"
    /\ pc = "FOUND" => (Last(trace).op = "files" /\ results # <<>>)
    /\ (exc # "none") <=> (pc \in {"EXHAUSTED", "FAILED"})

C8_Steps ==
    /\ pc' # pc => <<pc, pc'>> \in Edges
    /\ exc # "none" => UNCHANGED vars

\* C8: a run goes START, FETCH_ROOT, FETCH_MONTH, then FOUND, FETCH_MONTH
\* again or EXHAUSTED, then DOWNLOAD, DONE: the root listing is fetched before
\* any month page, the download starts only after a URL was returned, DONE
\* only follows the download, and after EXHAUSTED or a failure that was not
\* recovered nothing is fetched or downloaded
C8_StateMachine ==
    [](C8_Order) /\ [][C8_Steps]_vars

\* a run reached DONE after a fallback
C8_Witness ==
    /\ pc = "DONE" /\ Len(probed) = 2
    /\ Len(trace) = 5 /\ trace[5].op = "download"

\* C9: every failure of the HTTP GET, while the connection is opened or while
\* the response is read, is retried up to 2 more times and reaches the caller
\* only after the third failed attempt
C9_EveryFailureRetried ==
    (pc = "FAILED" /\ exc \in {"URLError", "TimeoutError"}) =>
        Len(attempts) = DefaultRetries + 1

\* the start tag t produces no match for a parser with the given pattern
NoMatch(year_month, t) ==
    \/ t.tag # "a"
    \/ \A j \in 1..Len(t.attrs) :
          \/ t.attrs[j][1] # "href"
          \/ t.attrs[j][2] = None
          \/ ~ReMatch(RegexOf(year_month), t.attrs[j][2])

C10_Step ==
    (pc = "FEED" /\ exc = "none" /\ feedPos < Len(feedIn)
        /\ NoMatch(feedYM, feedIn[feedPos + 1])) =>
        /\ exc' = "none"
        /\ timestamps' = timestamps
        /\ feedPos' = feedPos + 1

\* C10: a start tag that produces no match (not an anchor, an anchor without
\* href, an href without a value, an href that does not match) raises no
\* error and leaves the candidate list as it is, and the parser goes on to
\* the next tag
C10_UnmatchedTagIgnored == [][C10_Step]_vars

\* C11: check_files_exists applied to a URL that ends in .bz2 returns True
\* without any get_html call and without parsing; applied to any other URL
\* it makes exactly one get_html call, for that URL, and returns True exactly
\* when the fetched page yields a file candidate
C11_CheckFilesExists ==
    pc = "CHECKED" =>
        IF EndsWith(latest_year_month_url, <<".","b","z","2">>)
        THEN /\ check_returned = "True"
             /\ trace = <<>> /\ attempts = <<>> /\ web = NoSite /\ timestamps = <<>>
        ELSE /\ trace = <<[op |-> "probe", url |-> latest_year_month_url]>>
             /\ Shown(web, ipv, latest_year_month_url) = <<html>>
             /\ check_returned = "True" <=> FileCandidates(html) # {}

StartsWith(s, prefix) ==
    /\ Len(s) >= Len(prefix)
    /\ SubSeq(s, 1, Len(prefix)) = prefix

\* IPv4 runs first, IPv6 last, and IPv6 is started only from a finished run
C12_OneAfterTheOther ==
    /\ ipv = "" => (pc = "START" /\ jobs = <<"4", "6">>)
    /\ ipv = "4" => jobs = <<"6">>
    /\ ipv = "6" => jobs = <<>>
    /\ (pc = "START" /\ ipv = "4") =>
          (exc = "none" /\ trace # <<>> /\ Last(trace).op = "download")
    /\ \A i \in 1..Len(trace) : StartsWith(trace[i].url, BaseUrl(ipv))

\* a run works on the candidates of its own root listing only, and what it
\* returns is determined by the listings of its own tree
C12_FreshRun ==
    /\ pc \in {"FETCH_ROOT", "GOT_ROOT"} => (timestamps = <<>> /\ probed = <<>>)
    /\ (pc \notin {"START", "FETCH_ROOT", "GOT_ROOT"} /\ web.root # <<>>) =>
          /\ Range(timestamps) \subseteq MonthCandidates(web.root[1])
          /\ \A i \in 1..Len(probed) : probed[i].ym \in MonthCandidates(web.root[1])
    /\ (ipv = "6" /\ Returned /\ nchanges = 0) =>
          /\ Cardinality(LatestMonths(web)) = 1
          /\ Last(results) = ExpectedUrl(web, "6")

C12_Handover ==
    ipv' # ipv =>
        /\ pc = "START" /\ pc' = "FETCH_ROOT"
        /\ ipv = "4" => (ipv' = "6" /\ Last(trace).op = "download")
        /\ timestamps' = <<>> /\ probed' = <<>> /\ html' = <<>>
        /\ web' = NoSite /\ results' = <<>>
        /\ trace' = <<[op |-> "root", url |-> BaseUrl(ipv')]>>

\* C12: with both versions requested the IPv4 pipeline runs first and the
\* IPv6 pipeline starts only after the IPv4 pipeline reached DONE; the IPv6
\* run starts with an empty candidate list and what it returns depends only
\* on the listings of the IPv6 tree
C12_Sequential ==
    [](C12_OneAfterTheOther /\ C12_FreshRun) /\ [][C12_Handover]_vars

\* the IPv6 run finished after a fallback
C12_Witness ==
    /\ ipv = "6" /\ pc = "DONE" /\ jobs = <<>> /\ Len(probed) = 2

\* C13: the file named in the returned URL is the greatest file candidate of
\* the listing whose probe made get_latest_year_month accept the month, so the
\* last segment of a returned URL is rib.<8 digits>.<4 digits>.bz2 and never
\* -1.-1, whatever the server sends after the month was accepted
C13_FileOfProbedListing ==
    Returned =>
        /\ probed # <<>>
        /\ MatchesFilePattern(Last(probed).name)
        /\ Last(results) = SlashFormat(MonthUrl(ipv, Last(probed).ym), Last(probed).name)
        /\ ~EndsWith(Last(results), NoFile)

\* the months whose page this run has probed or is probing, in probe order
ProbedMonths ==
    [i \in 1..Len(probed) |-> probed[i].ym]
        \o (IF pc \in {"FETCH_MONTH", "GOT_MONTH"} THEN <<test_date>> ELSE <<>>)

\* C14: the month pages are probed in strictly decreasing order of the sort
\* key, from the greatest candidate of the root listing on; a fallback goes
\* to the next-highest distinct month, no month page is probed twice, and no
\* month below the accepted one is probed
C14_ProbesStrictlyDecrease ==
    LET pm == ProbedMonths
    IN pm # <<>> =>
          /\ pm[1] = Greatest(MonthCandidates(web.root[1]))
          /\ \A i \in 1..(Len(pm) - 1) :
                /\ KeyLess(pm[i + 1], pm[i])
                /\ \A m \in MonthCandidates(web.root[1]) :
                      ~(KeyLess(pm[i + 1], m) /\ KeyLess(m, pm[i]))
          /\ \A i, j \in 1..Len(pm) : i # j => pm[i] # pm[j]
          /\ MonthAccepted => Last(pm) = test_date

ProbeCalls == {i \in 1..Len(trace) : trace[i].op = "probe"}

AllFailed == [i \in 1..(DefaultRetries + 1) |-> "URLError"]

\* the third failed attempt of a probe ends the run as it stands
C15_FailurePropagates ==
    (pc = "FETCH_MONTH" /\ attempts' = AllFailed) =>
        /\ pc' = "FAILED" /\ exc' = "URLError"
        /\ UNCHANGED <<timestamps, test_date, probed, trace, results, html>>

\* a run that ended in a failed probe: the month was not recorded as empty,
\* no lower month was probed after it, and no URL was returned
C15_FailedProbe ==
    (pc = "FAILED" /\ exc \in {"URLError", "TimeoutError"} /\ Last(trace).op = "probe") =>
        /\ Last(trace).url = MonthUrl(ipv, test_date)
        /\ Cardinality(ProbeCalls) = Len(probed) + 1
        /\ \A i \in 1..Len(probed) : probed[i].ym # test_date \/ probed[i].name = NoFile
        /\ \A i \in 1..Len(trace) : trace[i].op \in {"root", "probe"}
        /\ results = <<>>

\* C15: a month page whose fetch fails on all 3 attempts is not taken for an
\* empty listing: the failure leaves check_files_exists and
\* get_latest_year_month, the run ends in a terminal failure, no lower month
\* is probed and no URL is returned
C15_FetchFailureIsNotEmpty ==
    /\ [](C15_FailedProbe)
    /\ [][C15_FailurePropagates /\ (pc = "FAILED" => UNCHANGED vars)]_vars

\* the probe of the greatest month failed three times, a lower month is left
C15_Witness ==
    /\ pc = "FAILED" /\ exc = "URLError" /\ attempts = AllFailed
    /\ Last(trace).op = "probe" /\ timestamps # <<>>

\* n: the length of the candidate list the root listing of this run yields
NumMonthCandidates == Len(feed(TRUE, web.root[1]).ts)

FetchCalls == {i \in 1..Len(trace) : trace[i].op # "download"}

\* the run has passed the parsing of its root listing
RootParsed == web.root # <<>> /\ pc \notin {"START", "FETCH_ROOT", "GOT_ROOT"}

\* the resolver has stopped without returning a URL
ResolverStopped == exc # "none" /\ Last(trace).op # "download"

\* C16: for every root listing the resolver ends in FOUND, EXHAUSTED or a
\* fetch failure; a fallback takes one candidate from the list and adds
\* none, a get_html call makes at most 3 attempts, so a run over n month
\* candidates makes at most n existence probes, n + 2 get_html calls and
\* 3 * (n + 2) HTTP attempts
C16_TerminatesWithinBounds ==
    /\ Len(attempts) <= DefaultRetries + 1
    /\ RootParsed =>
          /\ Cardinality(ProbeCalls) + Len(timestamps) <= NumMonthCandidates
          /\ Cardinality(ProbeCalls) <= NumMonthCandidates
          /\ Cardinality(FetchCalls) <= NumMonthCandidates + 2
          /\ (DefaultRetries + 1) * (Cardinality(FetchCalls) - 1) + Len(attempts)
                <= (DefaultRetries + 1) * (NumMonthCandidates + 2)
    /\ ResolverStopped =>
          \/ pc = "EXHAUSTED"
          \/ pc = "FAILED" /\ exc \in {"URLError", "TimeoutError"}

\* int(c) for a digit c
DigitValue(c) == IF c = ArabicFour THEN 4 ELSE Ord(c) - Ord("0")

\* int(s) for a string of digits
RECURSIVE IntOf(_)
IntOf(s) ==
    IF s = <<>> THEN 0
    ELSE 10 * IntOf(SubSeq(s, 1, Len(s) - 1)) + DigitValue(s[Len(s)])

\* t before u when the pairs are compared as numbers, field by field
NumLess(t, u) ==
    \/ IntOf(t[1]) < IntOf(u[1])
    \/ IntOf(t[1]) = IntOf(u[1]) /\ IntOf(t[2]) < IntOf(u[2])

\* C17: for the tuples the two patterns capture, the order of the tuple_sort
\* keys is the order of the pairs compared as numbers field by field, so the
\* element popped after the sort is the latest candidate
C17_KeyOrderIsNumericOrder ==
    pc = "POPPED" =>
        /\ \A t \in Range(timestamps) : ~NumLess(test_date, t)
        /\ \A t, u \in Range(timestamps) \cup {test_date} :
              StrLess(tuple_sort(t), tuple_sort(u)) <=> NumLess(t, u)

====
